---------------------------- MODULE Spec2Model ----------------------------
(***************************************************************************)
(* Model of prcoords.py: conversions among WGS-84, GCJ-02 and BD-09, the   *)
(* single-step inverses and the iterative refiner built by _bored.         *)
(*                                                                         *)
(* Python floats are modelled as fixed-point integers:                     *)
(*   - angles in degrees, and dimensionless values (sin, cos, magic), in   *)
(*     units of 1/ONE (a coordinate is <<lat, lon>> in micro-degrees);     *)
(*   - lengths in millimetres.                                             *)
(* Every product and quotient is computed in pieces that stay inside       *)
(* TLC's 32-bit integers.  math.sin is a Taylor polynomial after range     *)
(* reduction, math.sqrt an integer square root refined by one Newton step. *)
(* The model's results agree with the Python code's to a few micro-degrees *)
(* on the inputs used (PRC_EPS is 10 micro-degrees).                       *)
(***************************************************************************)
EXTENDS Integers, Sequences, FiniteSets, TLC

\* ------------------------------------------------------------------------
\* Fixed-point arithmetic standing for Python's float operations
\* ------------------------------------------------------------------------

\* One unit of a float: 1.0 is ONE, one degree is ONE micro-degrees.
ONE == 1000000

Abs(a) == IF a < 0 THEN -a ELSE a

Sgn(a) == IF a < 0 THEN -1 ELSE 1

\* float a * b for a, b in units of 1/ONE: (a * b) / ONE, truncated.
Mul(a, b) ==
    LET ah == Abs(a) \div 1000
        al == Abs(a) % 1000
        bh == Abs(b) \div 1000
        bl == Abs(b) % 1000
    IN  Sgn(a) * Sgn(b)
          * (ah * bh + (ah * bl + al * bh) \div 1000 + (al * bl) \div ONE)

\* float a * b for a, b in micro-degrees, the product in units of 1/1000
\* (square degrees times 1000): (a * b) / 10^9, truncated.
Mul3(a, b) ==
    LET ah == Abs(a) \div 100000
        al == Abs(a) % 100000
        bh == Abs(b) \div 100000
        bl == Abs(b) % 100000
    IN  Sgn(a) * Sgn(b)
          * (ah * bh * 10 + (ah * bl + al * bh) \div 10000
               + ((al \div 100) * (bl \div 100)) \div 100000)

\* Long division: n more decimal digits of r / b appended to acc.
RECURSIVE DivDigits(_, _, _, _)
DivDigits(r, b, n, acc) ==
    IF n = 0 THEN acc
    ELSE DivDigits((r * 10) % b, b, n - 1, acc * 10 + (r * 10) \div b)

\* float a / b, the quotient in units of 1/ONE: (a * ONE) / b, truncated.
Div(a, b) ==
    Sgn(a) * Sgn(b)
      * DivDigits(Abs(a) % Abs(b), Abs(b), 6, Abs(a) \div Abs(b))

\* Largest r in lo..hi with r * r <= n (bisection).
RECURSIVE ISqrtIn(_, _, _)
ISqrtIn(n, lo, hi) ==
    IF lo >= hi THEN lo
    ELSE LET mid == (lo + hi + 1) \div 2
         IN  IF mid * mid <= n THEN ISqrtIn(n, mid, hi)
             ELSE ISqrtIn(n, lo, mid - 1)

\* Integer square root of a 31-bit natural number.
ISqrt(n) == ISqrtIn(n, 0, 46340)

\* math.sqrt(a) for a >= 0 in units of 1/ONE, result in units of 1/ONE.
Sqrt(a) ==
    IF a = 0 THEN 0
    ELSE LET s0 == 1000 * ISqrt(a)
         IN  (s0 + Div(a, s0)) \div 2

\* math.pi in units of 1/ONE.
PI == 3141593

\* sin(pi * r) for r in [0, 1/2] (units of 1/ONE): Taylor polynomial of
\* sin z at z = pi * r, in Horner form.
SinQ(r) ==
    LET z  == Mul(PI, r)
        z2 == Mul(z, z)
        p5 == ONE - z2 \div 110
        p4 == ONE - Mul(z2 \div 72, p5)
        p3 == ONE - Mul(z2 \div 42, p4)
        p2 == ONE - Mul(z2 \div 20, p3)
        p1 == ONE - Mul(z2 \div 6, p2)
    IN  Mul(z, p1)

\* math.sin(pi * t) for any t (units of 1/ONE): reduction to [0, 1/2].
SinPi(t) ==
    LET r  == t % (2 * ONE)
        s  == IF r >= ONE THEN -1 ELSE 1
        r1 == IF r >= ONE THEN r - ONE ELSE r
        r2 == IF r1 > ONE \div 2 THEN ONE - r1 ELSE r1
    IN  s * SinQ(r2)

\* math.cos(pi * t).
CosPi(t) == SinPi(t + ONE \div 2)

\* math.radians(v) for a length v in metres, the result in millimetres:
\* v * pi / 180 * 1000, with pi / 180 * 1000 in units of 1/ONE.
RadiansMm(v) == Mul(v, 17453293)


\* ------------------------------------------------------------------------
\* Program constants
\* ------------------------------------------------------------------------

\* Krasovsky 1940 semi-major axis, metres.
GCJ_A == 6378245

\* Krasovsky 1940 eccentricity squared, 0.00669342..., in units of 1/ONE.
GCJ_EE == 6693

\* Convergence threshold of the refiner, 1e-5 degrees, in micro-degrees.
PRC_EPS == 10

\* Baidu's fixed offsets, 0.0060 and 0.0065 degrees, in micro-degrees.
BD_DLAT == 6000

BD_DLON == 6500

\* The refiner's iteration cap.
MaxIter == 10

\* ------------------------------------------------------------------------
\* class Coords
\* ------------------------------------------------------------------------

Coords(lat, lon) == <<lat, lon>>

Lat(c) == c[1]

Lon(c) == c[2]

\* Coords.__sub__
Sub(a, b) == Coords(Lat(a) - Lat(b), Lon(a) - Lon(b))

\* abs(c) > eps for Coords.__abs__ = math.hypot(lat, lon).  A component
\* beyond eps decides alone; otherwise the squares are compared.
AbsGreater(c, eps) ==
    IF Abs(Lat(c)) > eps THEN TRUE
    ELSE IF Abs(Lon(c)) > eps THEN TRUE
    ELSE Lat(c) * Lat(c) + Lon(c) * Lon(c) > eps * eps

\* ------------------------------------------------------------------------
\* The conversions.  Each returns a record: val, the coordinate returned;
\* calls, the evaluations of wgs_gcj it made, in order, each with the point
\* and the check_china flag it was given; warns, the number of
\* warnings.warn diagnostics it emitted.
\* ------------------------------------------------------------------------

\* Mutant: the edges of the box excluded.
sanity_in_china_p_strict(coords) ==
    /\ 829300 < Lat(coords) /\ Lat(coords) < 55827100
    /\ 72004000 < Lon(coords) /\ Lon(coords) < 137834700

sanity_in_china_p(coords) ==
    /\ 829300 <= Lat(coords) /\ Lat(coords) <= 55827100
    /\ 72004000 <= Lon(coords) /\ Lon(coords) <= 137834700

\* dLat_m of wgs_gcj, in millimetres, at x = lon - 105, y = lat - 35.
DLatMm(x, y) ==
    -100000 + x \div 500 + (3 * y) \div 1000 + Mul3(y, y) \div 5
      + Mul3(x, y) \div 10 + Sqrt(Abs(x)) \div 5000
      + (2 * SinPi(6 * x) + 2 * SinPi(2 * x) + 2 * SinPi(y)
           + 4 * SinPi(y \div 3) + 16 * SinPi(y \div 12)
           + 32 * SinPi(y \div 30)) \div 150

\* dLon_m of wgs_gcj, in millimetres.
DLonMm(x, y) ==
    300000 + x \div 1000 + y \div 500 + Mul3(x, x) \div 10
      + Mul3(x, y) \div 10 + Sqrt(Abs(x)) \div 10000
      + (2 * SinPi(6 * x) + 2 * SinPi(2 * x) + 2 * SinPi(x)
           + 4 * SinPi(x \div 3) + 15 * SinPi(x \div 12)
           + 30 * SinPi(x \div 30)) \div 150

\* The distortion branch of wgs_gcj: the coordinate it returns when the
\* region check does not stop it.
Distort(wgs) ==
    LET x      == Lon(wgs) - 105 * ONE
        y      == Lat(wgs) - 35 * ONE
        radLat == Lat(wgs) \div 180          \* radLat / pi
        Square(v) == Mul(v, v)
        magic  == ONE - Mul(GCJ_EE, Square(SinPi(radLat)))
        lat_deg_arclen ==
            RadiansMm(Mul(Mul(GCJ_A, ONE - GCJ_EE), Mul(magic, Sqrt(magic))))
        lon_deg_arclen ==
            RadiansMm(Div(Mul(GCJ_A, CosPi(radLat)), Sqrt(magic)))
    IN  Coords(Lat(wgs) + Div(DLatMm(x, y), lat_deg_arclen),
               Lon(wgs) + Div(DLonMm(x, y), lon_deg_arclen))

\* Mutant: the region check left out.
wgs_gcj_unchecked(wgs, check_china) ==
    [val |-> Distort(wgs),
     calls |-> <<[at |-> wgs, check |-> check_china]>>,
     warns |-> 0]

\* Mutant: the region check inverted (the "not" dropped).
wgs_gcj_inverted(wgs, check_china) ==
    IF check_china /\ sanity_in_china_p(wgs)
    THEN [val |-> wgs,
          calls |-> <<[at |-> wgs, check |-> check_china]>>,
          warns |-> 1]
    ELSE [val |-> Distort(wgs),
          calls |-> <<[at |-> wgs, check |-> check_china]>>,
          warns |-> 0]

wgs_gcj(wgs, check_china) ==
    IF check_china /\ ~sanity_in_china_p(wgs)
    THEN [val |-> wgs,
          calls |-> <<[at |-> wgs, check |-> check_china]>>,
          warns |-> 1]
    ELSE [val |-> Distort(wgs),
          calls |-> <<[at |-> wgs, check |-> check_china]>>,
          warns |-> 0]

\* Mutant: the estimated distortion added instead of subtracted.
gcj_wgs_added(gcj, check_china) ==
    LET Result(f) ==
            [val |-> Coords(Lat(gcj) + (Lat(f.val) - Lat(gcj)),
                            Lon(gcj) + (Lon(f.val) - Lon(gcj))),
             calls |-> f.calls, warns |-> f.warns]
    IN  Result(wgs_gcj(gcj, check_china))

\* (A value used more than once is passed as the argument of a local
\* operator, here and below, so that it is written once.)
gcj_wgs(gcj, check_china) ==
    LET Result(f) ==
            [val |-> Sub(gcj, Sub(f.val, gcj)), calls |-> f.calls,
             warns |-> f.warns]
    IN  Result(wgs_gcj(gcj, check_china))

\* The polar warp shared by gcj_bd (sg = 1) and bd_gcj (sg = -1):
\*   r     = sqrt(x*x + y*y) + sg * 0.00002  * sin(radians(y) * 3000)
\*   theta = atan2(y, x)     + sg * 0.000003 * cos(radians(x) * 3000)
\* and the result <<r * sin(theta), r * cos(theta)>>.  With h the square
\* root, e = r - h and d = theta - atan2(y, x), the result is
\*   (1 + e/h) * <<y * cos d + x * sin d, x * cos d - y * sin d>>,
\* computed with sin d = d and cos d = 1 (d is at most 0.000003, so the
\* terms dropped are below 10^-9 degrees).  radians(v) * 3000 is
\* pi * v * 50 / 3, of period 0.12 degrees in v.
PolarWarp(x, y, sg) ==
    LET h    == ISqrt((x \div 10000) * (x \div 10000)
                        + (y \div 10000) * (y \div 10000))
        e    == sg * Mul(20, SinPi(((y % 120000) * 50) \div 3))
        cosx == CosPi(((x % 120000) * 50) \div 3)
        xd   == sg * (Mul(3 * (x \div 1000), cosx) \div 1000)
        yd   == sg * (Mul(3 * (y \div 1000), cosx) \div 1000)
        lat0 == y + xd
        lon0 == x - yd
    IN  Coords(lat0 + Mul(e, Div(lat0 \div 10000, h)),
               lon0 + Mul(e, Div(lon0 \div 10000, h)))

gcj_bd(gcj) ==
    LET Result(w) ==
            [val |-> Coords(Lat(w) + BD_DLAT, Lon(w) + BD_DLON),
             calls |-> <<>>, warns |-> 0]
    IN  Result(PolarWarp(Lon(gcj), Lat(gcj), 1))

bd_gcj(bd) ==
    [val |-> PolarWarp(Lon(bd) - BD_DLON, Lat(bd) - BD_DLAT, -1),
     calls |-> <<>>, warns |-> 0]

\* gcj_wgs(bd_gcj(bd), check_china)
bd_wgs(bd, check_china) ==
    LET Outer(g, f) ==
            [val |-> f.val, calls |-> g.calls \o f.calls,
             warns |-> g.warns + f.warns]
        Inner(g) == Outer(g, gcj_wgs(g.val, check_china))
    IN  Inner(bd_gcj(bd))

\* Mutant: the Baidu warp left out.
wgs_bd_unwarped(bd, check_china) == wgs_gcj(bd, check_china)

\* gcj_bd(wgs_gcj(bd, check_china))
wgs_bd(bd, check_china) ==
    LET Outer(f, g) ==
            [val |-> g.val, calls |-> f.calls \o g.calls,
             warns |-> f.warns + g.warns]
        Inner(f) == Outer(f, gcj_bd(f.val))
    IN  Inner(wgs_gcj(bd, check_china))

\* ------------------------------------------------------------------------
\* _bored(fwd, rev) and its three instances
\* ------------------------------------------------------------------------

Refined == {"gcj_wgs_bored", "bd_gcj_bored", "bd_wgs_bored"}

\* fwd of each instance, called as fwd(wgs, flag); gcj_bd takes the flag as
\* its unused _dummy.
Fwd(fn, wgs, flag) ==
    CASE fn = "gcj_wgs_bored" -> wgs_gcj(wgs, flag)
      [] fn = "bd_gcj_bored"  -> gcj_bd(wgs)
      [] fn = "bd_wgs_bored"  -> wgs_bd(wgs, flag)

\* rev of each instance, called as rev(bad, flag); bd_gcj takes the flag as
\* its unused _dummy.
Rev(fn, bad, flag) ==
    CASE fn = "gcj_wgs_bored" -> gcj_wgs(bad, flag)
      [] fn = "bd_gcj_bored"  -> bd_gcj(bad)
      [] fn = "bd_wgs_bored"  -> bd_wgs(bad, flag)

\* Mutant: the caller's flag handed to rev.
RevEstimate_flagged(fn, bad, check_china) == Rev(fn, bad, check_china)

\* wgs = rev(bad): the initial estimate.  rev is called with one argument,
\* so its check_china takes its default, True, whatever the caller passed.
RevEstimate(fn, bad, check_china) == Rev(fn, bad, TRUE)

\* Mutant: the caller's flag handed to fwd.
FwdEval_flagged(fn, wgs, check_china) == Fwd(fn, wgs, check_china)

\* fwd(wgs, False): the forward evaluation of one iteration.
FwdEval(fn, wgs, check_china) == Fwd(fn, wgs, FALSE)

\* Mutant: one iteration too many.
LoopCond_inclusive(i, diff) == i <= MaxIter /\ AbsGreater(diff, PRC_EPS)

\* Mutant: "or" for "and".
LoopCond_either(i, diff) == i < MaxIter \/ AbsGreater(diff, PRC_EPS)

\* The loop condition of rev_bored.
LoopCond(i, diff) == i < MaxIter /\ AbsGreater(diff, PRC_EPS)

\* The locals of rev_bored when the loop is first reached.
LoopEntry(fn, bad, check_china) ==
    LET Locals0(r) ==
            [wgs |-> r.val, old |-> bad,
             diff |-> Coords(99 * ONE, 99 * ONE), i |-> 0,
             calls |-> r.calls, warns |-> r.warns]
    IN  Locals0(RevEstimate(fn, bad, check_china))

\* Mutant: old taken after the update instead of before it.
LoopBody_late_old(fn, bad, check_china, st) ==
    LET Update(f, d) ==
            [wgs |-> Sub(st.wgs, d), old |-> Sub(st.wgs, d), diff |-> d,
             i |-> st.i + 1, calls |-> st.calls \o f.calls,
             warns |-> st.warns + f.warns]
        Measure(f) == Update(f, Sub(f.val, bad))
    IN  Measure(FwdEval(fn, st.wgs, check_china))

\* One iteration of the loop of rev_bored on the locals st.
LoopBody(fn, bad, check_china, st) ==
    LET Update(f, d) ==
            [wgs |-> Sub(st.wgs, d), old |-> st.wgs, diff |-> d,
             i |-> st.i + 1, calls |-> st.calls \o f.calls,
             warns |-> st.warns + f.warns]
        Measure(f) == Update(f, Sub(f.val, bad))
    IN  Measure(FwdEval(fn, st.wgs, check_china))

\* The locals of rev_bored when its loop ends, starting from st.
RECURSIVE LoopRun(_, _, _, _)
LoopRun(fn, bad, check_china, st) ==
    IF LoopCond(st.i, st.diff)
    THEN LoopRun(fn, bad, check_china, LoopBody(fn, bad, check_china, st))
    ELSE st

\* A whole call rev_bored(bad, check_china) of the instance fn.
rev_bored(fn, bad, check_china) ==
    LET Result(st) ==
            [val |-> st.wgs, calls |-> st.calls, warns |-> st.warns]
    IN  Result(LoopRun(fn, bad, check_china,
                       LoopEntry(fn, bad, check_china)))

\* ------------------------------------------------------------------------
\* Inputs
\* ------------------------------------------------------------------------

\* Coordinates callers pass, in micro-degrees: points inside the China
\* bounding box, its two corners, points one micro-degree outside each
\* edge, the spec's boundary examples, far-away cities, and two points near
\* the pole where the refiner does not settle.
Points ==
    << Coords(39909230, 116397470), Coords(35000000, 105000000),
       Coords(829300, 72004000),    Coords(55827100, 137834700),
       Coords(51507400, -127800),   Coords(800000, 72004000),
       Coords(55830000, 137834700), Coords(829299, 72004000),
       Coords(829300, 72003999),    Coords(55827101, 137834700),
       Coords(55827100, 137834701), Coords(89800000, 137000000),
       Coords(89800000, 72000000),  Coords(-33868800, 151209300),
       Coords(22300000, 114170000), Coords(60000000, 30000000) >>

\* How many of Points the callers use.
MaxPoints == 14

Inputs == {Points[k] : k \in 1..MaxPoints}

\* ------------------------------------------------------------------------
\* State: one call at a time of a public function
\* ------------------------------------------------------------------------

VARIABLES
    pc,           \* "idle", "loop" (inside rev_bored's loop), "done"
    fn,           \* the function being called
    arg,          \* its coordinate argument (bad, in rev_bored)
    check_china,  \* the flag the caller passed
    wgs,          \* rev_bored: the estimate
    old,          \* rev_bored: the estimate before the last update
    diff,         \* rev_bored: the last difference
    i,            \* rev_bored: iterations done
    ret,          \* the coordinate returned
    inside,       \* the boolean returned by sanity_in_china_p
    calls,        \* the evaluations of wgs_gcj made by this call
    warns         \* the diagnostics emitted by this call

vars == <<pc, fn, arg, check_china, wgs, old, diff, i, ret, inside, calls,
          warns>>

Origin == Coords(0, 0)

Init ==
    /\ pc = "idle"
    /\ fn = "none"
    /\ arg = Origin
    /\ check_china = TRUE
    /\ wgs = Origin
    /\ old = Origin
    /\ diff = Origin
    /\ i = 0
    /\ ret = Origin
    /\ inside = FALSE
    /\ calls = <<>>
    /\ warns = 0

\* A call of a function without a loop: it returns r.
Returns(name, p, c, r) ==
    /\ pc = "idle"
    /\ pc' = "done"
    /\ fn' = name
    /\ arg' = p
    /\ check_china' = c
    /\ ret' = r.val
    /\ calls' = r.calls
    /\ warns' = r.warns
    /\ UNCHANGED <<wgs, old, diff, i, inside>>

call_sanity_in_china_p ==
    \E p \in Inputs :
        /\ pc = "idle"
        /\ pc' = "done"
        /\ fn' = "sanity_in_china_p"
        /\ arg' = p
        /\ inside' = sanity_in_china_p(p)
        /\ UNCHANGED <<check_china, wgs, old, diff, i, ret, calls, warns>>

call_wgs_gcj ==
    \E p \in Inputs, c \in BOOLEAN : Returns("wgs_gcj", p, c, wgs_gcj(p, c))

call_gcj_wgs ==
    \E p \in Inputs, c \in BOOLEAN : Returns("gcj_wgs", p, c, gcj_wgs(p, c))

call_gcj_bd ==
    \E p \in Inputs, c \in BOOLEAN : Returns("gcj_bd", p, c, gcj_bd(p))

call_bd_gcj ==
    \E p \in Inputs, c \in BOOLEAN : Returns("bd_gcj", p, c, bd_gcj(p))

call_bd_wgs ==
    \E p \in Inputs, c \in BOOLEAN : Returns("bd_wgs", p, c, bd_wgs(p, c))

call_wgs_bd ==
    \E p \in Inputs, c \in BOOLEAN : Returns("wgs_bd", p, c, wgs_bd(p, c))

\* rev_bored up to its loop.
\* The locals of rev_bored as the state holds them, and their assignment.
Locals ==
    [wgs |-> wgs, old |-> old, diff |-> diff, i |-> i, calls |-> calls,
     warns |-> warns]

SetLocals(st) ==
    /\ wgs' = st.wgs
    /\ old' = st.old
    /\ diff' = st.diff
    /\ i' = st.i
    /\ calls' = st.calls
    /\ warns' = st.warns

rev_bored_enter ==
    \E name \in Refined, p \in Inputs, c \in BOOLEAN :
        /\ pc = "idle"
        /\ pc' = "loop"
        /\ fn' = name
        /\ arg' = p
        /\ check_china' = c
        /\ SetLocals(LoopEntry(name, p, c))
        /\ UNCHANGED <<ret, inside>>

\* One iteration of rev_bored's loop.
rev_bored_iterate ==
    /\ pc = "loop"
    /\ LoopCond(i, diff)
    /\ SetLocals(LoopBody(fn, arg, check_china, Locals))
    /\ UNCHANGED <<pc, fn, arg, check_china, ret, inside>>

\* The loop ends and rev_bored returns wgs.
rev_bored_return ==
    /\ pc = "loop"
    /\ ~LoopCond(i, diff)
    /\ pc' = "done"
    /\ ret' = wgs
    /\ UNCHANGED <<fn, arg, check_china, wgs, old, diff, i, inside, calls,
                   warns>>

\* The caller takes the result; nothing outlives a call.
finish ==
    /\ pc = "done"
    /\ pc' = "idle"
    /\ fn' = "none"
    /\ arg' = Origin
    /\ check_china' = TRUE
    /\ wgs' = Origin
    /\ old' = Origin
    /\ diff' = Origin
    /\ i' = 0
    /\ ret' = Origin
    /\ inside' = FALSE
    /\ calls' = <<>>
    /\ warns' = 0

Next ==
    \/ call_sanity_in_china_p
    \/ call_wgs_gcj
    \/ call_gcj_wgs
    \/ call_gcj_bd
    \/ call_bd_gcj
    \/ call_bd_wgs
    \/ call_wgs_bd
    \/ rev_bored_enter
    \/ rev_bored_iterate
    \/ rev_bored_return
    \/ finish

Spec == Init /\ [][Next]_vars

\* ------------------------------------------------------------------------
\* Properties
\* ------------------------------------------------------------------------

Returned(name) == pc = "done" /\ fn = name

London == Coords(51507400, -127800)

CornerLow == Coords(829300, 72004000)

CornerHigh == Coords(55827100, 137834700)

\* C1: wgs_gcj(p, check_china=True) on a p that fails sanity_in_china_p
\* returns p itself, emits exactly one diagnostic, and does not apply the
\* distortion formulas.
C1_OutOfRegionPassthrough ==
    (Returned("wgs_gcj") /\ check_china /\ ~sanity_in_china_p(arg))
        => /\ ret = arg
           /\ warns = 1
           /\ ret # Distort(arg)

C1_Witness ==
    Returned("wgs_gcj") /\ check_china /\ arg = London /\ ret = London

\* C2 as stated: a call of a refined inverse makes no more than 10
\* evaluations of wgs_gcj, the one inside the initial estimate included.
C2_AtMostTenEvaluations ==
    fn \in Refined => Len(calls) <= 10

\* C2 amended: a call of a refined inverse makes no more than 11
\* evaluations of wgs_gcj: at most 10 in the loop, one per iteration, after
\* the one made by the single-step inverse for the initial estimate
\* (bd_gcj_bored makes none at all).
C2_AtMostElevenEvaluations ==
    fn \in Refined
        => /\ Len(calls) <= MaxIter + 1
           /\ i <= MaxIter
           /\ Len(calls) = IF fn = "bd_gcj_bored" THEN 0 ELSE i + 1

C2_Witness ==
    Returned("gcj_wgs_bored") /\ Len(calls) = 11

\* C3 as stated: gcj_wgs and bd_wgs return the same coordinate with
\* check_china True and False, wherever the input lies.
C3_FlagNeverMatters ==
    /\ Returned("gcj_wgs") => ret = gcj_wgs(arg, ~check_china).val
    /\ Returned("bd_wgs") => ret = bd_wgs(arg, ~check_china).val

\* C3 amended: gcj_wgs(p, True) equals gcj_wgs(p, False) when p lies inside
\* the China bounding box, and bd_wgs(p, True) equals bd_wgs(p, False) when
\* bd_gcj(p) does.  Outside it the region check is applied: the call with
\* True returns p (for bd_wgs, bd_gcj(p)) unchanged, which is not what the
\* call with False returns.
C3_FlagMattersOutside ==
    /\ (Returned("gcj_wgs") /\ sanity_in_china_p(arg))
           => ret = gcj_wgs(arg, ~check_china).val
    /\ (Returned("gcj_wgs") /\ ~sanity_in_china_p(arg) /\ check_china)
           => (ret = arg /\ ret # gcj_wgs(arg, FALSE).val)
    /\ (Returned("bd_wgs") /\ sanity_in_china_p(bd_gcj(arg).val))
           => ret = bd_wgs(arg, ~check_china).val
    /\ (Returned("bd_wgs") /\ ~sanity_in_china_p(bd_gcj(arg).val)
          /\ check_china)
           => (ret = bd_gcj(arg).val /\ ret # bd_wgs(arg, FALSE).val)

\* A BD-09 input inside the box whose GCJ-02 intermediate is outside it.
C3_Witness ==
    /\ Returned("bd_wgs") /\ check_china
    /\ sanity_in_china_p(arg) /\ ~sanity_in_china_p(bd_gcj(arg).val)
    /\ ret = bd_gcj(arg).val

\* C4 as stated: wgs_bd(p, check_china=True) returns p unchanged for p
\* outside the China bounding box.
C4_ComposedPassthrough ==
    (Returned("wgs_bd") /\ check_china /\ ~sanity_in_china_p(arg))
        => ret = arg

\* C4 amended: for p outside the China bounding box wgs_bd(p, True) returns
\* gcj_bd(p): the forward leg passes p through unchanged, with one
\* diagnostic, and the Baidu warp is still applied, so the result is not p.
C4_ComposedWarpsOutside ==
    (Returned("wgs_bd") /\ check_china /\ ~sanity_in_china_p(arg))
        => /\ ret = gcj_bd(arg).val
           /\ ret # arg
           /\ warns = 1
           /\ calls = <<[at |-> arg, check |-> TRUE]>>

C4_Witness ==
    Returned("wgs_bd") /\ check_china /\ arg = London /\ ret # London

C6_BoundingBoxInclusive ==
    Returned("sanity_in_china_p")
        => /\ inside <=> (/\ Lat(arg) >= 829300 /\ Lat(arg) <= 55827100
                          /\ Lon(arg) >= 72004000 /\ Lon(arg) <= 137834700)
           /\ arg \in {CornerLow, CornerHigh} => inside
           /\ (\/ Lat(arg) < 829300 \/ Lat(arg) > 55827100
               \/ Lon(arg) < 72004000 \/ Lon(arg) > 137834700) => ~inside

C6_Witness ==
    Returned("sanity_in_china_p") /\ arg = CornerHigh /\ inside

\* C7: the loop of rev_bored terminates; it runs at least one iteration
\* (the sentinel diff exceeds PRC_EPS) and at most 10; it stops after fewer
\* than 10 only when the diff of the last iteration has magnitude
\* <= PRC_EPS; each iteration sets diff = F(estimate, False) - target and
\* then estimate = estimate - diff.
C7_LoopRuns ==
    fn \in Refined
        => /\ i \in 0..MaxIter
           /\ (pc = "loop" /\ i = 0) => LoopCond(i, diff)
           /\ pc = "done" => i >= 1
           /\ (pc = "done" /\ i < MaxIter) => ~AbsGreater(diff, PRC_EPS)
           /\ i >= 1 => /\ diff = Sub(Fwd(fn, old, FALSE).val, arg)
                        /\ wgs = Sub(old, diff)

C8_NoCheckedEvaluation ==
    fn \in Refined
        => /\ \A k \in 1..Len(calls) : ~calls[k].check
           /\ warns = 0

\* C8 amended: every evaluation of wgs_gcj made in the loop of a refined
\* inverse is made with the region check disabled and emits no diagnostic;
\* the one made for the initial estimate (by gcj_wgs, for gcj_wgs_bored and
\* bd_wgs_bored) is made with the check enabled, whatever flag the caller
\* passed, and emits the diagnostic when its point is outside the box.
C8_OnlyEstimateChecked ==
    fn \in Refined
        => /\ \A k \in 1..Len(calls) :
                  calls[k].check <=> (k = 1 /\ fn # "bd_gcj_bored")
           /\ warns = IF fn = "bd_gcj_bored" THEN 0
                      ELSE IF sanity_in_china_p(calls[1].at) THEN 0 ELSE 1
           /\ fn = "gcj_wgs_bored" => calls[1].at = arg
           /\ fn = "bd_wgs_bored" => calls[1].at = bd_gcj(arg).val

C8_Witness ==
    /\ Returned("gcj_wgs_bored") /\ ~check_china
    /\ warns = 1 /\ Len(calls) >= 3

C10_FlagWithoutEffect ==
    (pc = "done" /\ fn \in Refined)
        => /\ ret = rev_bored(fn, arg, ~check_china).val
           /\ calls = rev_bored(fn, arg, ~check_china).calls
           /\ fn # "bd_gcj_bored" => calls[1].check

\* A call with the check declined whose BD-09 input maps outside the box.
C10_Witness ==
    /\ Returned("bd_wgs_bored") /\ ~check_china
    /\ ~sanity_in_china_p(bd_gcj(arg).val)

=============================================================================
